---- MODULE Spec2Model ----
(***************************************************************************)
(* GoQuant trade simulator: the streaming client (src/src/websocket/       *)
(* client.py) and the trainable cost models (src/src/models/slippage.py,   *)
(* src/src/models/maker_taker.py) as state machines.                       *)
(*                                                                         *)
(* The client runs on one asyncio event loop: the code between two awaits  *)
(* is one atomic step, so every action below goes from one await of a      *)
(* coroutine to its next one.                                              *)
(***************************************************************************)
EXTENDS Integers, Sequences, FiniteSets, TLC

(* ------------------------------ bounds -------------------------------- *)
\* frames the endpoint puts on the wire
MaxFrames == 2
\* callbacks registered on the client
MaxSubs == 2
\* the count of consecutive failed attempts is remembered up to this many
MaxAttempts == 7
\* train calls that reach the fit
MaxTrains == 2

(* ---------------------------- the wire -------------------------------- *)
required_fields == <<"timestamp", "exchange", "symbol", "asks", "bids">>

RequiredSet == {required_fields[i] : i \in 1..Len(required_fields)}

\* A text frame, by what json.loads and _process_orderbook look at:
\*   json   - json.loads accepts the text
\*   fields - the keys of the decoded object
\*   ts     - datetime.fromisoformat accepts the timestamp
\*   nums   - float() accepts every price and quantity
ValidBody == [json |-> TRUE, fields |-> RequiredSet, ts |-> TRUE, nums |-> TRUE]

FrameBodies ==
    { ValidBody,
      [ValidBody EXCEPT !.json = FALSE],
      [ValidBody EXCEPT !.fields = RequiredSet \ {"bids"}],
      [ValidBody EXCEPT !.nums = FALSE],
      [ValidBody EXCEPT !.ts = FALSE] }

\* _process_orderbook: TRUE when it returns the data, FALSE when it raises
ProcessOrderbookOk(body) ==
    /\ \A i \in 1..Len(required_fields) : required_fields[i] \in body.fields
    /\ body.ts
    /\ body.nums

\* lines 31-35 of _process_messages: json.loads, then _process_orderbook
ParsesToSnapshot(body) == body.json /\ ProcessOrderbookOk(body)

(* ----------------------------- state ---------------------------------- *)
VARIABLES
    websocket,   \* self.websocket: "None", or the state of the connection it holds
    orphans,     \* open connections the client opened and no longer references
    callbacks,   \* self.callbacks: the behaviour of each registered callback
    running,     \* self.running
    inbox,       \* frames buffered in the connection self.websocket holds
    sent,        \* frames the endpoint has put on the wire so far
    task,        \* the _process_messages tasks
    log,         \* history: the callback invocations made, in order
    consumed     \* history: the frames recv() returned, in order

clientVars == <<websocket, orphans, callbacks, running, inbox, sent, task, log, consumed>>

\* One cost model object (SlippageModel or MakerTakerModel) with a thread that
\* calls train and a thread that calls calculate. The two classes share no
\* state, so one object is followed at a time.
VARIABLES
    cls,         \* which class the object is: "slippage" or "maker_taker"
    is_trained,  \* self.is_trained
    scaler,      \* self.scaler: the train call whose data it is fitted to, 0 = unfitted
    model,       \* self.model: the train call whose data it is fitted to, 0 = unfitted
    trains,      \* train calls that reached the fit so far
    trainer,     \* the thread in train
    calc         \* the thread in calculate

modelVars == <<cls, is_trained, scaler, model, trains, trainer, calc>>

vars == <<clientVars, modelVars>>

\* the _process_messages tasks: one per connect() call that succeeded
Loops == {1, 2}

\* What a callback does when awaited
CallbackKinds == {"returns", "raises", "hangs"}

max_retry_delay == 30

\* on: the connection a task in recv() awaits: "self" for the one
\* self.websocket holds, else the state ("open" or "closed") of a connection
\* that self.websocket held when recv() was called and holds no more
IdleTask == [pc |-> "none", pos |-> 0, idx |-> 0, retry_delay |-> 0,
             attempt |-> 0, recovered |-> FALSE, on |-> "self"]

ModelKinds == {"slippage", "maker_taker"}

IdleTrainer == [pc |-> "idle", data |-> <<>>, run |-> 0, last |-> "none"]

IdleCalc == [pc |-> "idle", book |-> 0, quantity |-> 0, readScaler |-> 0,
             readModel |-> 0, path |-> "none", result |-> <<>>]

\* __init__ of SlippageModel / MakerTakerModel (lines 8-12 of both files)
ModelInit(k) ==
    /\ cls = k
    /\ is_trained = FALSE
    /\ scaler = 0
    /\ model = 0
    /\ trains = 0
    /\ trainer = IdleTrainer
    /\ calc = IdleCalc

ClientInit ==
    /\ websocket = "None"
    /\ orphans = 0
    /\ callbacks = <<>>
    /\ running = FALSE
    /\ inbox = <<>>
    /\ sent = 0
    /\ task = [t \in Loops |-> IdleTask]
    /\ log = <<>>
    /\ consumed = <<>>

\* main() (main.py lines 15-22): the models and the client are constructed
Init == ClientInit /\ ModelInit("slippage")

(* ------------------- WebSocketClient._process_messages ---------------- *)
\* `while self.running:` at the top of _process_messages (line 29): the task
\* awaits the next recv(), or ends when running is false
LoopTest(tk) ==
    IF running THEN [tk EXCEPT !.pc = "recv", !.pos = 0, !.idx = 0]
               ELSE [tk EXCEPT !.pc = "done", !.pos = 0, !.idx = 0]

\* the mutation of OnProcessingError: the exception ends the task
OnProcessingErrorFatal(tk) == [tk EXCEPT !.pc = "done", !.pos = 0, !.idx = 0]

\* the mutation of OnProcessingError: the error is handled like a closed
\* connection, the task starts to reconnect
OnProcessingErrorReconnects(tk) ==
    [tk EXCEPT !.pc = "sleep", !.pos = 0, !.idx = 0, !.retry_delay = 1, !.attempt = 1]

\* `except Exception` (lines 44-45): log, then the next iteration of the loop
OnProcessingError(tk) == LoopTest(tk)

Invocation(t, pos, i) == [task |-> t, pos |-> pos, sub |-> i]

\* the index of the callback the `for` of line 38 takes after callback i
NextCallback(i) == i + 1

\* `for callback in self.callbacks: await callback(processed_data)` from index
\* i on: the list iterator reads the list as it is now
CallFrom(t, tk, pos, i) ==
    IF i <= Len(callbacks)
    THEN /\ task' = [task EXCEPT ![t] = [tk EXCEPT !.pc = "in_callback",
                                                   !.pos = pos, !.idx = i]]
         /\ log' = Append(log, Invocation(t, pos, i))
    ELSE /\ task' = [task EXCEPT ![t] = LoopTest(tk)]
         /\ log' = log

\* the mutation of Receive: the buffer hands out its newest frame first
ReceiveNewest(q) == [frame |-> q[Len(q)], rest |-> SubSeq(q, 1, Len(q) - 1)]

\* `await self.websocket.recv()` (line 31): the oldest buffered frame
Receive(q) == [frame |-> Head(q), rest |-> Tail(q)]

\* recv() returns a buffered frame (line 31); parse, validate, start dispatch
Recv(t) ==
    /\ task[t].pc = "recv"
    /\ task[t].on = "self"
    /\ websocket # "None"
    /\ inbox # <<>>
    /\ LET frame == Receive(inbox).frame IN
        /\ inbox' = Receive(inbox).rest
        /\ consumed' = Append(consumed, [pos |-> frame.pos,
                                         valid |-> ParsesToSnapshot(frame.body),
                                         subs |-> Len(callbacks)])
        /\ IF ParsesToSnapshot(frame.body)
           THEN CallFrom(t, task[t], frame.pos, 1)
           ELSE /\ task' = [task EXCEPT ![t] = OnProcessingError(task[t])]
                /\ log' = log
    /\ UNCHANGED <<websocket, orphans, callbacks, running, sent, modelVars>>

\* the awaited callback returns: the next callback, or the next iteration
CallbackReturn(t) ==
    /\ task[t].pc = "in_callback"
    /\ callbacks[task[t].idx] = "returns"
    /\ CallFrom(t, task[t], task[t].pos, NextCallback(task[t].idx))
    /\ UNCHANGED <<websocket, orphans, callbacks, running, inbox, sent, consumed, modelVars>>

\* the awaited callback raises: the exception leaves the `for` and is caught
\* by `except Exception` of line 44
CallbackRaise(t) ==
    /\ task[t].pc = "in_callback"
    /\ callbacks[task[t].idx] = "raises"
    /\ task' = [task EXCEPT ![t] = OnProcessingError(task[t])]
    /\ UNCHANGED <<websocket, orphans, callbacks, running, inbox, sent, log, consumed, modelVars>>

(* ----------------------- WebSocketClient._reconnect ------------------- *)
\* the mutation of NextDelay: doubling without the cap
NextDelayUncapped(d) == d * 2

\* line 83
NextDelay(d) == IF d * 2 < max_retry_delay THEN d * 2 ELSE max_retry_delay

\* line 71
InitialDelay == 1

\* the mutation of ReconnectTest: the task gives up after the third failure
ReconnectTestGiveUp(tk) ==
    IF running /\ tk.attempt <= 3
    THEN [tk EXCEPT !.pc = "sleep"]
    ELSE [tk EXCEPT !.pc = "done", !.retry_delay = 0, !.attempt = 0]

\* `while self.running:` of _reconnect (line 74): sleep before the next
\* attempt, or return to _process_messages, whose own loop test follows
ReconnectTest(tk) ==
    IF running THEN [tk EXCEPT !.pc = "sleep"]
               ELSE LoopTest([tk EXCEPT !.retry_delay = 0, !.attempt = 0])

\* recv() raises ConnectionClosed (lines 41-43): _reconnect starts
RecvClosed(t) ==
    /\ task[t].pc = "recv"
    /\ task[t].on = "self"
    /\ websocket = "closed"
    /\ inbox = <<>>
    /\ task' = [task EXCEPT ![t] =
                  ReconnectTest([task[t] EXCEPT !.retry_delay = InitialDelay,
                                                !.attempt = 1])]
    /\ UNCHANGED <<websocket, orphans, callbacks, running, inbox, sent, log, consumed, modelVars>>

\* `self.websocket = ...` by task t, which goes on as tk: every other task
\* that is in recv() on the connection held so far stays in that call
Rebind(t, tk) ==
    [u \in Loops |->
        IF u = t THEN tk
        ELSE IF task[u].pc = "recv" /\ task[u].on = "self"
        THEN [task[u] EXCEPT !.on = websocket]
        ELSE task[u]]

\* asyncio.sleep(retry_delay) is over (line 77); websockets.connect is awaited
SleepDone(t) ==
    /\ task[t].pc = "sleep"
    /\ task' = [task EXCEPT ![t].pc = "connecting"]
    /\ UNCHANGED <<websocket, orphans, callbacks, running, inbox, sent, log, consumed, modelVars>>

\* websockets.connect succeeds (lines 78-80): _reconnect returns
ReconnectOk(t) ==
    /\ task[t].pc = "connecting"
    /\ websocket' = "open"
    /\ orphans' = IF websocket = "open" THEN orphans + 1 ELSE orphans
    /\ inbox' = <<>>
    /\ task' = Rebind(t, LoopTest([task[t] EXCEPT !.retry_delay = 0, !.attempt = 0,
                                                   !.recovered = task[t].attempt > 1]))
    /\ UNCHANGED <<callbacks, running, sent, log, consumed, modelVars>>

\* websockets.connect raises (lines 81-83)
ReconnectFail(t) ==
    /\ task[t].pc = "connecting"
    /\ task' = [task EXCEPT ![t] =
                  ReconnectTest([task[t] EXCEPT
                      !.retry_delay = NextDelay(task[t].retry_delay),
                      !.attempt = IF task[t].attempt < MaxAttempts
                                  THEN task[t].attempt + 1 ELSE MaxAttempts])]
    /\ UNCHANGED <<websocket, orphans, callbacks, running, inbox, sent, log, consumed, modelVars>>

(* --------------------------- the client's API ------------------------- *)
\* connect() succeeds (lines 19-21): a new connection, running, a new task.
\* When websockets.connect raises, connect() re-raises and changes nothing.
Connect(t) ==
    /\ task[t].pc = "none"
    /\ \A u \in Loops : u < t => task[u].pc # "none"
    /\ websocket' = "open"
    /\ orphans' = IF websocket = "open" THEN orphans + 1 ELSE orphans
    /\ inbox' = <<>>
    /\ running' = TRUE
    /\ task' = Rebind(t, [task[t] EXCEPT !.pc = "recv"])
    /\ UNCHANGED <<callbacks, sent, log, consumed, modelVars>>

\* main() calls connect() once (main.py line 33)
MainConnect == Connect(1)

\* register_callback (lines 85-87)
RegisterCallback(cb) ==
    /\ Len(callbacks) < MaxSubs
    /\ callbacks' = Append(callbacks, cb)
    /\ UNCHANGED <<websocket, orphans, running, inbox, sent, task, log, consumed, modelVars>>

\* MainWindow.__init__ registers its callback (main_window.py line 34) before
\* main() calls connect()
RegisterAtStartup(cb) ==
    /\ \A t \in Loops : task[t].pc = "none"
    /\ RegisterCallback(cb)

\* close() (lines 89-94)
Close ==
    /\ websocket # "None"
    /\ running' = FALSE
    /\ websocket' = "closed"
    /\ UNCHANGED <<orphans, callbacks, inbox, sent, task, log, consumed, modelVars>>

(* ----------------------------- the endpoint --------------------------- *)
ServerSend(body) ==
    /\ websocket = "open"
    /\ sent < MaxFrames
    /\ sent' = sent + 1
    /\ inbox' = Append(inbox, [pos |-> sent + 1, body |-> body])
    /\ UNCHANGED <<websocket, orphans, callbacks, running, task, log, consumed, modelVars>>

\* the transport drops the connection
ServerDrop ==
    /\ websocket = "open"
    /\ websocket' = "closed"
    /\ UNCHANGED <<orphans, callbacks, running, inbox, sent, task, log, consumed, modelVars>>

LoopStep(t) ==
    \/ Recv(t)
    \/ RecvClosed(t)
    \/ CallbackReturn(t)
    \/ CallbackRaise(t)
    \/ SleepDone(t)
    \/ ReconnectOk(t)
    \/ ReconnectFail(t)

(* ------------------------ a second connect() call -------------------- *)
\* a task in recv() on a connection self.websocket holds no more gets a frame
\* the endpoint sends on that connection; its next recv() is on self.websocket
StaleRecv(t, body) ==
    /\ task[t].pc = "recv"
    /\ task[t].on = "open"
    /\ sent < MaxFrames
    /\ sent' = sent + 1
    /\ consumed' = Append(consumed, [pos |-> sent + 1,
                                     valid |-> ParsesToSnapshot(body),
                                     subs |-> Len(callbacks)])
    /\ LET tk == [task[t] EXCEPT !.on = "self"] IN
        IF ParsesToSnapshot(body)
        THEN CallFrom(t, tk, sent + 1, 1)
        ELSE /\ task' = [task EXCEPT ![t] = OnProcessingError(tk)]
             /\ log' = log
    /\ UNCHANGED <<websocket, orphans, callbacks, running, inbox, modelVars>>

\* the transport drops a connection self.websocket holds no more
OrphanDrop(t) ==
    /\ task[t].pc = "recv"
    /\ task[t].on = "open"
    /\ task' = [task EXCEPT ![t].on = "closed"]
    /\ orphans' = orphans - 1
    /\ UNCHANGED <<websocket, callbacks, running, inbox, sent, log, consumed, modelVars>>

\* recv() on such a connection raises ConnectionClosed (lines 41-43)
StaleClosed(t) ==
    /\ task[t].pc = "recv"
    /\ task[t].on = "closed"
    /\ task' = [task EXCEPT ![t] =
                  ReconnectTest([task[t] EXCEPT !.on = "self",
                                                !.retry_delay = InitialDelay,
                                                !.attempt = 1])]
    /\ UNCHANGED <<websocket, orphans, callbacks, running, inbox, sent, log, consumed, modelVars>>

\* recv() while another task is in recv() on the same connection: the
\* library raises, `except Exception` logs and the loop calls recv() again.
\* Which of the two called first is not followed: either may be the one.
ConcurrentRecv(t) ==
    /\ task[t].pc = "recv"
    /\ task[t].on = "self"
    /\ \E u \in Loops \ {t} : task[u].pc = "recv" /\ task[u].on = "self"
    /\ task' = [task EXCEPT ![t] = OnProcessingError(task[t])]
    /\ UNCHANGED <<websocket, orphans, callbacks, running, inbox, sent, log, consumed, modelVars>>

\* connect() may be called again, before or after close()
ReentrantNext ==
    \/ \E t \in Loops : Connect(t)
    \/ Close
    \/ \E body \in FrameBodies : ServerSend(body)
    \/ ServerDrop
    \/ \E cb \in CallbackKinds : RegisterAtStartup(cb)
    \/ \E t \in Loops : LoopStep(t)
    \/ \E t \in Loops, body \in FrameBodies : StaleRecv(t, body)
    \/ \E t \in Loops : OrphanDrop(t)
    \/ \E t \in Loops : StaleClosed(t)
    \/ \E t \in Loops : ConcurrentRecv(t)

\* every task the event loop can run is run in the end; a frame or a drop on
\* a connection is the endpoint's doing and is not promised
ReentrantSpec ==
    /\ Init
    /\ [][ReentrantNext]_vars
    /\ \A t \in Loops : WF_vars(LoopStep(t))
    /\ \A t \in Loops : WF_vars(StaleClosed(t))

\* what happens around the task: the API calls other than register_callback,
\* and the endpoint
Environment ==
    \/ MainConnect
    \/ Close
    \/ \E body \in FrameBodies : ServerSend(body)
    \/ ServerDrop

\* callbacks may be registered at any time
Next ==
    \/ Environment
    \/ \E cb \in CallbackKinds : RegisterCallback(cb)
    \/ \E t \in Loops : LoopStep(t)

Spec == Init /\ [][Next]_vars

\* the program as main() wires it: the callbacks are registered before connect()
NextAsWired ==
    \/ Environment
    \/ \E cb \in CallbackKinds : RegisterAtStartup(cb)
    \/ \E t \in Loops : LoopStep(t)

\* The event loop runs every task that can run; the endpoint is assumed to
\* accept a connection eventually (the hypothesis of the reconnection claim).
\* No fairness on the callbacks' own progress, the API calls or the endpoint.
FairSpec ==
    /\ Init
    /\ [][NextAsWired]_vars
    /\ \A t \in Loops : WF_vars(LoopStep(t))
    /\ \A t \in Loops : SF_vars(ReconnectOk(t))

(* ---------------------------- float values --------------------------- *)
\* A float64 value as a fraction n/d with d > 0, or an infinity (inf = 1 or
\* -1); rounding is left out.
Num(n) == [n |-> n, d |-> 1, inf |-> 0]

PosInf == [n |-> 0, d |-> 1, inf |-> 1]

Abs(i) == IF i < 0 THEN 0 - i ELSE i

RECURSIVE GCD(_, _)
GCD(a, b) == IF b = 0 THEN a ELSE GCD(b, a % b)

\* the fraction n/d, d > 0, in lowest terms
Frac(n, d) ==
    LET g == GCD(Abs(n), d) IN [n |-> n \div g, d |-> d \div g, inf |-> 0]

Neg(x) == [n |-> 0 - x.n, d |-> x.d, inf |-> 0 - x.inf]

Add(x, y) ==
    IF x.inf # 0 THEN x
    ELSE IF y.inf # 0 THEN y
    ELSE Frac(x.n * y.d + y.n * x.d, x.d * y.d)

Sub(x, y) == Add(x, Neg(y))

\* x * k for an integer k > 0
Times(x, k) == IF x.inf # 0 THEN x ELSE Frac(x.n * k, x.d)

\* numpy float64 division of integers p / q, q >= 0, p > 0 when q = 0
Div(p, q) == IF q = 0 THEN PosInf ELSE Frac(p, q)

\* x / y for fractions, y > 0
Over(x, y) == Frac(x.n * y.d, x.d * y.n)

Half(x) == IF x.inf # 0 THEN x ELSE Frac(x.n, x.d * 2)

Lt(x, y) ==
    IF x.inf = 1 \/ y.inf = -1 THEN FALSE
    ELSE IF x.inf = -1 \/ y.inf = 1 THEN TRUE
    ELSE x.n * y.d < y.n * x.d

Eq(x, y) == ~Lt(x, y) /\ ~Lt(y, x)

\* Python's max(a, b) and min(a, b)
PyMax(a, b) == IF Lt(a, b) THEN b ELSE a

PyMin(a, b) == IF Lt(b, a) THEN b ELSE a

(* ------------------------------ order books --------------------------- *)
\* levels are <<price, quantity>>; prices are positive
NormalBook == [asks |-> << <<201, 2>>, <<202, 3>> >>, bids |-> << <<200, 2>>, <<199, 3>> >>]

\* a spread of 100 percent of the mid price
WideBook == [asks |-> << <<300, 1>> >>, bids |-> << <<100, 1>> >>]

\* best bid above best ask
CrossedBook == [asks |-> << <<100, 1>> >>, bids |-> << <<120, 1>> >>]

\* no ask level
EmptyBook == [asks |-> << >>, bids |-> << <<100, 1>> >>]

\* levels of quantity 0: no depth
ZeroBook == [asks |-> << <<100, 0>> >>, bids |-> << <<99, 0>> >>]

Books == {NormalBook, WideBook, CrossedBook, EmptyBook, ZeroBook}

\* order quantities in USD (positive: the quantity field of the window)
Quantities == {1, 500, 5000}

RECURSIVE Depth(_)
\* np.sum(levels[:, 1] * levels[:, 0])
Depth(levels) ==
    IF levels = <<>> THEN 0
    ELSE Head(levels)[1] * Head(levels)[2] + Depth(Tail(levels))

total_depth(book) == Depth(book.asks) + Depth(book.bids)

\* asks[0][0] and bids[0][0] raise IndexError on a side without levels
BookRaises(book) == book.asks = <<>> \/ book.bids = <<>>

\* (asks[0][0] + bids[0][0]) / 2
mid_price(book) == [n |-> book.asks[1][1] + book.bids[1][1], d |-> 2, inf |-> 0]

\* asks[0][0] - bids[0][0]
spread(book) == Num(book.asks[1][1] - book.bids[1][1])

\* (spread / mid_price) * 100
spread_percentage(book) == Times(Over(spread(book), mid_price(book)), 100)

\* _extract_features puts quantity / total_depth and the depth imbalance in the
\* vector: with no depth they are inf and nan, and no exception is raised
FeaturesFinite(book) == total_depth(book) # 0

(* --------------------- MakerTakerModel / SlippageModel ---------------- *)
\* the mutation of Clamp: the upper limit is not applied
ClampLowOnly(x) == PyMax(Num(0), x)

\* max(0.0, min(100.0, maker_prob)) (maker_taker.py line 107)
Clamp(x) == PyMax(Num(0), PyMin(Num(100), x))

\* MakerTakerModel._calculate_heuristic_proportions
HeuristicProportions(book, quantity) ==
    LET quantity_ratio == Div(quantity, total_depth(book))
        maker_prob == Sub(Add(Num(50), Times(spread_percentage(book), 2)),
                          Times(quantity_ratio, 100))
        maker == Clamp(maker_prob)
    IN  [maker |-> maker, taker |-> Sub(Num(100), maker)]

\* the rows predict_proba can return for a two-class model, in quarters:
\* <<P(class 0), P(class 1)>>
PredictProba == { <<Div(4 - k, 4), Div(k, 4)>> : k \in 0..4 }

\* lines 39-42 of MakerTakerModel.calculate
TrainedProportions(probabilities) ==
    [maker |-> Times(probabilities[1], 100), taker |-> Times(probabilities[2], 100)]

\* line 46 of MakerTakerModel.calculate
DefaultProportions == [maker |-> Num(50), taker |-> Num(50)]

\* SlippageModel._calculate_heuristic_slippage
HeuristicSlippage(book, quantity) ==
    LET quantity_impact == Times(Div(quantity, total_depth(book)), 100)
    IN  Add(Half(spread_percentage(book)), Half(quantity_impact))

\* values model.predict can return for the linear regression
Predictions == {Num(-3), Num(0), Num(2)}

\* line 40 of SlippageModel.calculate
TrainedSlippage(prediction) == PyMax(Num(0), prediction)

\* line 44 of SlippageModel.calculate
DefaultSlippage == Num(0)

Heuristic(book, quantity) ==
    IF cls = "maker_taker" THEN HeuristicProportions(book, quantity)
                            ELSE HeuristicSlippage(book, quantity)

Default == IF cls = "maker_taker" THEN DefaultProportions ELSE DefaultSlippage

TrainedResults ==
    IF cls = "maker_taker" THEN {TrainedProportions(row) : row \in PredictProba}
                            ELSE {TrainedSlippage(y) : y \in Predictions}

\* calculate up to the scaler: _extract_features, then the is_trained test
\* (lines 25-31 of both files)
CalcCall(book, quantity) ==
    /\ calc.pc = "idle"
    /\ LET c == [IdleCalc EXCEPT !.book = book, !.quantity = quantity] IN
       calc' = IF BookRaises(book)
               THEN [c EXCEPT !.path = "failure", !.result = Default]
               ELSE IF ~is_trained
               THEN [c EXCEPT !.path = "heuristic", !.result = Heuristic(book, quantity)]
               ELSE [c EXCEPT !.pc = "transform"]
    /\ UNCHANGED <<cls, is_trained, scaler, model, trains, trainer, clientVars>>

\* self.scaler.transform([features]) (line 34): raises on an unfitted scaler
\* and on a feature that is infinite
CalcTransform ==
    /\ calc.pc = "transform"
    /\ calc' = IF scaler = 0 \/ ~FeaturesFinite(calc.book)
               THEN [calc EXCEPT !.pc = "idle", !.path = "failure", !.result = Default]
               ELSE [calc EXCEPT !.pc = "predict", !.readScaler = scaler]
    /\ UNCHANGED <<cls, is_trained, scaler, model, trains, trainer, clientVars>>

\* self.model.predict / predict_proba (line 37) and the return
CalcPredict ==
    /\ calc.pc = "predict"
    /\ \E r \in TrainedResults :
         calc' = IF model = 0
                 THEN [calc EXCEPT !.pc = "idle", !.path = "failure", !.result = Default]
                 ELSE [calc EXCEPT !.pc = "idle", !.path = "trained",
                                   !.readModel = model, !.result = r]
    /\ UNCHANGED <<cls, is_trained, scaler, model, trains, trainer, clientVars>>

(* --------------------------------- train ------------------------------ *)
Sample(book, label) == [orderbook |-> book, quantity |-> 500, label |-> label]

\* historical_data: empty; good; one label only; a book without asks; a
\* book without depth
TrainingSets ==
    { << >>,
      << Sample(NormalBook, 0), Sample(WideBook, 1) >>,
      << Sample(NormalBook, 1), Sample(WideBook, 1) >>,
      << Sample(NormalBook, 0), Sample(EmptyBook, 1) >>,
      << Sample(ZeroBook, 0), Sample(NormalBook, 1) >> }

\* what train does with an empty list (lines 110-111 / 124-125): return
OnEmptyData == is_trained

\* the `except` of train (lines 132-134 / 146-148)
TrainFailed ==
    /\ is_trained' = FALSE
    /\ trainer' = [IdleTrainer EXCEPT !.last = "failed"]

\* train up to the scaler: the emptiness test and the feature loop
\* (lines 109-123 / 123-137)
TrainCall(data) ==
    /\ trainer.pc = "idle"
    /\ trains < MaxTrains
    /\ IF data = <<>>
       THEN /\ is_trained' = OnEmptyData
            /\ trainer' = [IdleTrainer EXCEPT !.last = "empty"]
            /\ trains' = trains
       ELSE IF \E i \in 1..Len(data) : BookRaises(data[i].orderbook)
       THEN TrainFailed /\ trains' = trains
       ELSE /\ trainer' = [pc |-> "fit_scaler", data |-> data, run |-> trains + 1,
                           last |-> trainer.last]
            /\ trains' = trains + 1
            /\ is_trained' = is_trained
    /\ UNCHANGED <<cls, scaler, model, calc, clientVars>>

\* self.scaler.fit_transform(X) (line 126 / 140): fit resets the scaler, then
\* raises on an infinite feature, else stores the new mean and scale
TrainFitScaler ==
    /\ trainer.pc = "fit_scaler"
    /\ IF \E i \in 1..Len(trainer.data) : ~FeaturesFinite(trainer.data[i].orderbook)
       THEN /\ scaler' = 0
            /\ TrainFailed
       ELSE /\ scaler' = trainer.run
            /\ trainer' = [trainer EXCEPT !.pc = "fit_model"]
            /\ is_trained' = is_trained
    /\ UNCHANGED <<cls, model, trains, calc, clientVars>>

\* LogisticRegression.fit raises when the labels hold one class only
ModelFitRaises(data) ==
    /\ cls = "maker_taker"
    /\ \A i, j \in 1..Len(data) : data[i].label = data[j].label

\* self.model.fit(X_scaled, y); self.is_trained = True (lines 129-130 / 143-144)
TrainFitModel ==
    /\ trainer.pc = "fit_model"
    /\ IF ModelFitRaises(trainer.data)
       THEN /\ model' = model
            /\ TrainFailed
       ELSE /\ model' = trainer.run
            /\ is_trained' = TRUE
            /\ trainer' = [IdleTrainer EXCEPT !.last = "trained"]
    /\ UNCHANGED <<cls, scaler, trains, calc, clientVars>>

ModelNext ==
    \/ \E book \in Books, quantity \in Quantities : CalcCall(book, quantity)
    \/ CalcTransform
    \/ CalcPredict
    \/ \E data \in TrainingSets : TrainCall(data)
    \/ TrainFitScaler
    \/ TrainFitModel

\* an object of either class, the client not started
InitModels == ClientInit /\ \E k \in ModelKinds : ModelInit(k)

\* either class, its train and calculate called from two threads
ModelSpec == InitModels /\ [][ModelNext]_vars

(* ------------------------------- claims ------------------------------- *)

\* C1: the invocations a receive loop makes are ordered by the wire position
\* of the frame first and by the registration index of the callback second:
\* a later invocation never has an earlier (or the same) frame/callback pair.
DeliveryInWireThenRegistrationOrder ==
    \A i, j \in 1..Len(log) :
        (i < j /\ log[i].task = log[j].task) =>
            \/ log[i].pos < log[j].pos
            \/ (log[i].pos = log[j].pos /\ log[i].sub < log[j].sub)

\* two frames, each delivered to two callbacks
TwoFramesTwoSubscribersDelivered ==
    /\ Len(log) = 4
    /\ log[2].sub = 2
    /\ log[3].pos > log[1].pos

InvocationsOf(pos, i) == {k \in 1..Len(log) : log[k].pos = pos /\ log[k].sub = i}

\* C2: a malformed frame is dropped and does not end the receive loop: of the
\* frames recv() returned while a callback was registered, exactly the valid
\* ones were dispatched (once each) to the first callback, and the task has
\* ended only if running is false.
MalformedFrameDoesNotStopLoop ==
    /\ \A k \in 1..Len(consumed) :
          Cardinality(InvocationsOf(consumed[k].pos, 1)) =
              IF consumed[k].valid /\ consumed[k].subs >= 1
              THEN 1 ELSE 0
    /\ \A t \in Loops : task[t].pc = "done" => ~running

\* one bad frame, then one valid frame, one snapshot dispatched
BadThenValidDispatchedOnce ==
    /\ Len(consumed) = 2
    /\ ~consumed[1].valid
    /\ consumed[1].subs >= 1
    /\ consumed[2].valid
    /\ Len(log) = 1
    /\ log[1].pos = consumed[2].pos

\* the task is still handling the frame at wire position pos
Handling(pos) == \E t \in Loops : task[t].pc = "in_callback" /\ task[t].pos = pos

\* C3: a callback that raises stops neither the loop nor the other callbacks:
\* once a valid frame has been handled, every callback that was registered
\* when it arrived has been invoked with it.
RaisingSubscriberIsolated ==
    \A k \in 1..Len(consumed) :
        (consumed[k].valid /\ ~Handling(consumed[k].pos)) =>
            \A i \in 1..consumed[k].subs : InvocationsOf(consumed[k].pos, i) # {}

\* C4: a callback never stalls the receive loop for ever: a task that awaits
\* a callback eventually gets past it.
SlowSubscriberDoesNotStall ==
    \A t \in Loops : (task[t].pc = "in_callback") ~> (task[t].pc # "in_callback")

\* min(2^(n-1), 30)
RECURSIVE Pow2(_)
Pow2(n) == IF n = 0 THEN 1 ELSE 2 * Pow2(n - 1)

ExpectedDelay(n) == IF Pow2(n - 1) < 30 THEN Pow2(n - 1) ELSE 30

\* C5: the delay waited before attempt N of a run of failed attempts is
\* min(2^(N-1), 30), and every reconnection episode starts again at N = 1.
BackoffSequence ==
    \A t \in Loops :
        task[t].pc \in {"sleep", "connecting"} =>
            /\ task[t].attempt >= 1
            /\ task[t].retry_delay = ExpectedDelay(task[t].attempt)

\* a second episode, after one that succeeded after failures, at the cap
SecondEpisodeReachesCap ==
    \E t \in Loops :
        /\ task[t].recovered
        /\ task[t].pc = "sleep"
        /\ task[t].attempt = 6
        /\ task[t].retry_delay = 30

Reconnecting(t) ==
    /\ running
    /\ websocket = "closed"
    /\ \/ task[t].pc \in {"sleep", "connecting"}
       \/ (task[t].pc = "recv" /\ inbox = <<>>)

\* C6: a dropped connection is never fatal while running: the task that finds
\* the connection closed keeps attempting until it is connected again and
\* awaits the next frame, unless close() is called.
DisconnectionNeverFatal ==
    \A t \in Loops :
        Reconnecting(t) ~> ((task[t].pc = "recv" /\ websocket = "open") \/ ~running)

\* dispatching again after a reconnection that took several attempts
ResumedAfterFailedAttempts ==
    \E t \in Loops : task[t].recovered /\ task[t].pc = "in_callback" /\ running

\* C7: once close() has been called the client starts no connection attempt
\* and holds no open connection.
CloseCancelsReconnection ==
    [][(~running /\ ~running' /\ websocket # "None") =>
          /\ \A t \in Loops : ~(task[t].pc = "sleep" /\ task'[t].pc = "connecting")
          /\ websocket' # "open"]_vars

\* C8: a calculate that runs while train is in flight never reads a torn
\* parameter set: on the trained path the scaler parameters and the model
\* parameters it read were written by the same train call.
NoTornParameters ==
    calc.path = "trained" => calc.readScaler = calc.readModel

\* C9: once train has returned from a call with an empty sample list, the
\* model is not trained, whatever it was before the call.
EmptyTrainingLeavesUntrained ==
    (trainer.pc = "idle" /\ trainer.last = "empty") => ~is_trained

Returns == calc.pc = "idle" /\ calc.path # "none"

InPercentRange(x) == ~Lt(x, Num(0)) /\ ~Lt(Num(100), x)

\* C10: every result of MakerTakerModel.calculate has maker + taker = 100 and
\* both in [0, 100], on the heuristic, the trained and the failure path.
MakerTakerSumsTo100 ==
    (cls = "maker_taker" /\ Returns) =>
        /\ Eq(Add(calc.result.maker, calc.result.taker), Num(100))
        /\ InPercentRange(calc.result.maker)
        /\ InPercentRange(calc.result.taker)

\* the heuristic on a book whose spread drives maker_prob above 100
HeuristicClampedAtHundred ==
    /\ cls = "maker_taker"
    /\ Returns
    /\ calc.path = "heuristic"
    /\ Lt(Num(100), Sub(Add(Num(50), Times(spread_percentage(calc.book), 2)),
                        Times(Div(calc.quantity, total_depth(calc.book)), 100)))
    /\ Eq(calc.result.maker, Num(100))

\* C11: every result of SlippageModel.calculate is >= 0, on the heuristic,
\* the trained and the failure path, crossed books included.
SlippageNonNegative ==
    (cls = "slippage" /\ Returns) => ~Lt(calc.result, Num(0))

\* the step in which recv() returns a frame that fails json.loads or
\* _process_orderbook
ValidationFailureStep ==
    /\ Len(consumed') = Len(consumed) + 1
    /\ ~consumed'[Len(consumed')].valid

\* C12: a validation failure changes nothing but the fate of the message: the
\* connection, the running flag and the callbacks are unchanged, no callback is
\* invoked, and the task that read the frame goes back to its loop test
\* without reconnecting.
ValidationFailureOnlyDropsMessage ==
    [][ValidationFailureStep =>
          /\ websocket' = websocket
          /\ orphans' = orphans
          /\ running' = running
          /\ callbacks' = callbacks
          /\ log' = log
          /\ \A t \in Loops :
                \/ task'[t] = task[t]
                \/ /\ task[t].pc = "recv"
                   /\ task'[t].pc = IF running THEN "recv" ELSE "done"]_vars

\* a malformed frame was dropped with a callback registered: nothing was
\* invoked, the connection is open and the task awaits the next frame
MalformedFrameDropped ==
    /\ Len(consumed) >= 1
    /\ ~consumed[Len(consumed)].valid
    /\ consumed[Len(consumed)].subs >= 1
    /\ log = <<>>
    /\ websocket = "open"
    /\ running
    /\ \E t \in Loops : task[t].pc = "recv"

Active(t) == task[t].pc \notin {"none", "done"}

\* C13: whatever connect() and close() calls were made, at most one
\* _process_messages task is active.
ExclusiveReceiveLoop ==
    Cardinality({t \in Loops : Active(t)}) <= 1

NoSubscriberHangs == \A i \in 1..Len(callbacks) : callbacks[i] # "hangs"

CloseCalled == ~running /\ websocket # "None"

\* C14: after close() every receive loop exits in the end, wherever it was
\* (in a receive, dispatching to subscribers that return, in a backoff wait),
\* and a loop that has exited stays so and invokes no subscriber.
LoopExitsAfterClose ==
    /\ (CloseCalled /\ NoSubscriberHangs) ~> (\A t \in Loops : ~Active(t))
    /\ [][\A t \in Loops : task[t].pc = "done" =>
              /\ task'[t] = task[t]
              /\ log' # log => log'[Len(log')].task # t]_vars

====
